---- MODULE Spec2Model ----
(***************************************************************************)
(* pelicanconf.py: a Python settings module, a flat sequence of top-level  *)
(* assignments.  Loading the module executes the assignments in file       *)
(* order; each one evaluates the literal on its right-hand side and binds  *)
(* the result to the name on its left in the module namespace.  Once the   *)
(* module is loaded its attributes are read, and the sequence-valued ones  *)
(* iterated, by whoever imported it.                                       *)
(*                                                                         *)
(* Python values are modelled by what they are: a str is a sequence of     *)
(* one-character strings, a tuple and a list are sequences of values, and  *)
(* True is a bool.  The right-hand sides are kept as token sequences and   *)
(* evaluated by Eval, so that ('templates',) and ('templates') differ as   *)
(* they do in Python.                                                      *)
(***************************************************************************)
EXTENDS Integers, Sequences, FiniteSets, TLC

VARIABLES
    ns,     \* the module namespace: setting name -> value, for the names bound so far
    pc,     \* index in Program of the next statement to execute
    cur,    \* the setting being iterated, or NoKey
    idx,    \* number of elements the running iteration has yielded
    out     \* the elements yielded by the running or the last iteration

vars == <<ns, pc, cur, idx, out>>

NoKey == "-"

----------------------------------------------------------------------------
(* Tokens of the right-hand sides.                                         *)

S(cs)  == [k |-> "str", chars |-> cs]
LPAR   == [k |-> "lpar", chars |-> <<>>]
RPAR   == [k |-> "rpar", chars |-> <<>>]
LBRACK == [k |-> "lbrack", chars |-> <<>>]
RBRACK == [k |-> "rbrack", chars |-> <<>>]
COMMA  == [k |-> "comma", chars |-> <<>>]
TRUE_  == [k |-> "true", chars |-> <<>>]

(* Python values.                                                          *)

StrVal(cs)   == [ty |-> "str", chars |-> cs]
TupleVal(xs) == [ty |-> "tuple", items |-> xs]
ListVal(xs)  == [ty |-> "list", items |-> xs]
BoolVal(b)   == [ty |-> "bool", b |-> b]

----------------------------------------------------------------------------
(* The statements of pelicanconf.py, each an assignment of the value of a   *)
(* literal to a name.                                                      *)

\* AUTHOR = 'Sean Anderson'
AUTHOR ==
    [target |-> "AUTHOR",
     rhs |-> <<S(<<"S","e","a","n"," ","A","n","d","e","r","s","o","n">>)>>]

\* SITENAME = 'pair of pared pears'
SITENAME ==
    [target |-> "SITENAME",
     rhs |-> <<S(<<"p","a","i","r"," ","o","f"," ","p","a","r","e","d"," ","p","e","a","r","s">>)>>]

\* PATH = 'content'
PATH ==
    [target |-> "PATH",
     rhs |-> <<S(<<"c","o","n","t","e","n","t">>)>>]

\* TIMEZONE = 'America/New_York'
TIMEZONE ==
    [target |-> "TIMEZONE",
     rhs |-> <<S(<<"A","m","e","r","i","c","a","/","N","e","w","_","Y","o","r","k">>)>>]

\* DEFAULT_LANG = 'en'
DEFAULT_LANG ==
    [target |-> "DEFAULT_LANG",
     rhs |-> <<S(<<"e","n">>)>>]

\* THEME = 'blue-penguin'
THEME ==
    [target |-> "THEME",
     rhs |-> <<S(<<"b","l","u","e","-","p","e","n","g","u","i","n">>)>>]

\* variant: THEME_TEMPLATES_OVERRIDES = ('templates')
THEME_TEMPLATES_OVERRIDES_NoComma ==
    [target |-> "THEME_TEMPLATES_OVERRIDES",
     rhs |-> <<LPAR,
                S(<<"t","e","m","p","l","a","t","e","s">>),
                RPAR>>]

\* THEME_TEMPLATES_OVERRIDES = ('templates',)
THEME_TEMPLATES_OVERRIDES ==
    [target |-> "THEME_TEMPLATES_OVERRIDES",
     rhs |-> <<LPAR,
                S(<<"t","e","m","p","l","a","t","e","s">>),
                COMMA,
                RPAR>>]

\* variant: STATIC_PATH = ('theme',)
STATIC_PATHS_Typo ==
    [target |-> "STATIC_PATH",
     rhs |-> <<LPAR,
                S(<<"t","h","e","m","e">>),
                COMMA,
                RPAR>>]

\* variant: line 8 copied and only its value edited, THEME_TEMPLATES_OVERRIDES = ('theme',)
STATIC_PATHS_Dup ==
    [target |-> "THEME_TEMPLATES_OVERRIDES",
     rhs |-> <<LPAR,
                S(<<"t","h","e","m","e">>),
                COMMA,
                RPAR>>]

\* STATIC_PATHS = ('theme',)
STATIC_PATHS ==
    [target |-> "STATIC_PATHS",
     rhs |-> <<LPAR,
                S(<<"t","h","e","m","e">>),
                COMMA,
                RPAR>>]

\* PLUGIN_PATHS = ('pelican-plugins',)
PLUGIN_PATHS ==
    [target |-> "PLUGIN_PATHS",
     rhs |-> <<LPAR,
                S(<<"p","e","l","i","c","a","n","-","p","l","u","g","i","n","s">>),
                COMMA,
                RPAR>>]

\* variant: PLUGINS = ('asciidoc_reader', True)
PLUGINS_NonStr ==
    [target |-> "PLUGINS",
     rhs |-> <<LPAR,
                S(<<"a","s","c","i","i","d","o","c","_","r","e","a","d","e","r">>),
                COMMA,
                TRUE_,
                RPAR>>]

\* variant: PLUGINS = ('asciidoc_reader', 'filetime_from_git', 'sitemap')
PLUGINS_Extra ==
    [target |-> "PLUGINS",
     rhs |-> <<LPAR,
                S(<<"a","s","c","i","i","d","o","c","_","r","e","a","d","e","r">>),
                COMMA,
                S(<<"f","i","l","e","t","i","m","e","_","f","r","o","m","_","g","i","t">>),
                COMMA,
                S(<<"s","i","t","e","m","a","p">>),
                RPAR>>]

\* PLUGINS = ('asciidoc_reader', 'filetime_from_git')
PLUGINS ==
    [target |-> "PLUGINS",
     rhs |-> <<LPAR,
                S(<<"a","s","c","i","i","d","o","c","_","r","e","a","d","e","r">>),
                COMMA,
                S(<<"f","i","l","e","t","i","m","e","_","f","r","o","m","_","g","i","t">>),
                RPAR>>]

\* ASCIIDOC_CMD = 'asciidoctor'
ASCIIDOC_CMD ==
    [target |-> "ASCIIDOC_CMD",
     rhs |-> <<S(<<"a","s","c","i","i","d","o","c","t","o","r">>)>>]

\* ASCIIDOC_OPTIONS = ['-a', 'source-highlighter=rouge',]
ASCIIDOC_OPTIONS ==
    [target |-> "ASCIIDOC_OPTIONS",
     rhs |-> <<LBRACK,
                S(<<"-","a">>),
                COMMA,
                S(<<"s","o","u","r","c","e","-","h","i","g","h","l","i","g","h","t","e","r","=","r","o","u","g","e">>),
                COMMA,
                RBRACK>>]

\* DELETE_OUTPUT_DIRECTORY = True
DELETE_OUTPUT_DIRECTORY ==
    [target |-> "DELETE_OUTPUT_DIRECTORY",
     rhs |-> <<TRUE_>>]

\* the statements in file order
Program ==
    << AUTHOR, SITENAME, PATH,
       TIMEZONE, DEFAULT_LANG, THEME,
       THEME_TEMPLATES_OVERRIDES, STATIC_PATHS, PLUGIN_PATHS,
       PLUGINS, ASCIIDOC_CMD, ASCIIDOC_OPTIONS,
       DELETE_OUTPUT_DIRECTORY >>

----------------------------------------------------------------------------
(* Evaluation of a right-hand side.                                        *)

\* the value of an atom: a string literal or True
Atom(t) == IF t.k = "str" THEN StrVal(t.chars) ELSE BoolVal(TRUE)

IsComma(t) == t.k = "comma"
NotComma(t) == t.k # "comma"

HasComma(ts) == \E i \in 1..Len(ts) : IsComma(ts[i])

\* the values of the comma-separated atoms between two brackets; a trailing
\* comma adds no element
Elems(ts) ==
    LET atoms == SelectSeq(ts, NotComma)
    IN  [i \in 1..Len(atoms) |-> Atom(atoms[i])]

\* a parenthesised form is a tuple when it is empty or holds a comma, and
\* otherwise the value of the one expression inside the parentheses
Eval(rhs) ==
    LET inner == SubSeq(rhs, 2, Len(rhs) - 1)
    IN  CASE rhs[1].k = "lpar" ->
                IF Len(inner) = 1 /\ ~HasComma(inner)
                THEN Atom(inner[1])
                ELSE TupleVal(Elems(inner))
          [] rhs[1].k = "lbrack" -> ListVal(Elems(inner))
          [] OTHER -> Atom(rhs[1])

----------------------------------------------------------------------------
(* Iteration of a value.                                                   *)

Iterable(v) == v.ty \in {"str", "tuple", "list"}

\* what iterating v yields: the characters of a str, each a str of length one,
\* and the elements of a tuple or list
Yield(v) ==
    IF v.ty = "str"
    THEN [i \in 1..Len(v.chars) |-> StrVal(<<v.chars[i]>>)]
    ELSE v.items

----------------------------------------------------------------------------
(* The state machine.                                                      *)

Done == Len(Program) + 1

Init ==
    /\ ns = <<>>
    /\ pc = 1
    /\ cur = NoKey
    /\ idx = 0
    /\ out = <<>>

\* bind name to v in namespace m, replacing an earlier binding of the name
Bind(m, name, v) ==
    [n \in DOMAIN m \cup {name} |-> IF n = name THEN v ELSE m[n]]

\* execute the next top-level assignment
Assign ==
    /\ pc < Done
    /\ ns' = Bind(ns, Program[pc].target, Eval(Program[pc].rhs))
    /\ pc' = pc + 1
    /\ UNCHANGED <<cur, idx, out>>

\* the loaded module's attribute k starts being iterated
IterStart(k) ==
    /\ pc = Done
    /\ cur = NoKey
    /\ k \in DOMAIN ns
    /\ Iterable(ns[k])
    /\ cur' = k
    /\ idx' = 0
    /\ out' = <<>>
    /\ UNCHANGED <<ns, pc>>

\* the running iteration yields its next element
IterNext ==
    /\ cur # NoKey
    /\ idx < Len(Yield(ns[cur]))
    /\ idx' = idx + 1
    /\ out' = Append(out, Yield(ns[cur])[idx + 1])
    /\ UNCHANGED <<ns, pc, cur>>

\* the running iteration is exhausted
IterStop ==
    /\ cur # NoKey
    /\ idx = Len(Yield(ns[cur]))
    /\ cur' = NoKey
    /\ UNCHANGED <<ns, pc, idx, out>>

Next ==
    \/ Assign
    \/ \E k \in DOMAIN ns : IterStart(k)
    \/ IterNext
    \/ IterStop

Spec == Init /\ [][Next]_vars

----------------------------------------------------------------------------
(* Vocabulary of the properties.                                           *)

RECURSIVE Join(_)
\* the text of a sequence of characters
Join(cs) == IF cs = <<>> THEN "" ELSE Head(cs) \o Join(Tail(cs))

Loaded == pc = Done

IsStr(v) == v.ty = "str"
IsBool(v) == v.ty = "bool"
IsSeqOfStr(v, ty) == v.ty = ty /\ \A i \in 1..Len(v.items) : IsStr(v.items[i])

\* the texts of the strings of a tuple or list; "?" for an element that is no str
Texts(v) ==
    [i \in 1..Len(v.items) |-> IF IsStr(v.items[i]) THEN Join(v.items[i].chars) ELSE "?"]

SettingNames ==
    {"AUTHOR", "SITENAME", "PATH", "TIMEZONE", "DEFAULT_LANG", "THEME",
     "THEME_TEMPLATES_OVERRIDES", "STATIC_PATHS", "PLUGIN_PATHS", "PLUGINS",
     "ASCIIDOC_CMD", "ASCIIDOC_OPTIONS", "DELETE_OUTPUT_DIRECTORY"}

MultiValued ==
    {"THEME_TEMPLATES_OVERRIDES", "STATIC_PATHS", "PLUGIN_PATHS", "PLUGINS",
     "ASCIIDOC_OPTIONS"}

----------------------------------------------------------------------------
(* C1 as stated: every value of the configuration record is a string, a    *)
(* tuple of strings or a list of strings.  DELETE_OUTPUT_DIRECTORY = True  *)
(* binds a bool, so this fails once line 18 has executed.                  *)
C1_AsStated ==
    \A name \in DOMAIN ns :
        \/ IsStr(ns[name])
        \/ IsSeqOfStr(ns[name], "tuple")
        \/ IsSeqOfStr(ns[name], "list")

(* C1 amended: every value of the configuration record is a string, a      *)
(* tuple of strings, a list of strings or a boolean, and the only boolean  *)
(* is DELETE_OUTPUT_DIRECTORY.                                             *)
C1_ValueTypes ==
    \A name \in DOMAIN ns :
        \/ IsStr(ns[name])
        \/ IsSeqOfStr(ns[name], "tuple")
        \/ IsSeqOfStr(ns[name], "list")
        \/ IsBool(ns[name]) /\ name = "DELETE_OUTPUT_DIRECTORY"

\* the load has ended and the record holds values of each admitted type
C1_Witness ==
    /\ Loaded
    /\ IsBool(ns["DELETE_OUTPUT_DIRECTORY"])
    /\ IsStr(ns["AUTHOR"])
    /\ IsSeqOfStr(ns["PLUGINS"], "tuple")
    /\ IsSeqOfStr(ns["ASCIIDOC_OPTIONS"], "list")

(* C2: after pelicanconf.py is loaded the keys of the configuration record *)
(* are exactly the 13 setting names: none is missing and no other name is  *)
(* defined.                                                                *)
C2_KeySet == Loaded => DOMAIN ns = SettingNames

C2_Witness == Loaded /\ Cardinality(DOMAIN ns) = 13

(* C3: each key is assigned exactly once.  A step that executes a          *)
(* statement writes a key no earlier step wrote, and no step changes the   *)
(* value of a key already written, so the value a key has after its        *)
(* assignment is the value it has when the load ends.                      *)
C3_AssignedOnce ==
    [][ /\ pc' # pc => Program[pc].target \notin DOMAIN ns
        /\ \A name \in DOMAIN ns : name \in DOMAIN ns' /\ ns'[name] = ns[name] ]_vars

\* the load has ended and every statement bound a key of its own
C3_Witness == Loaded /\ Cardinality(DOMAIN ns) = Len(Program) /\ Len(Program) > 1

(* C7: the plugins named by the configuration are exactly asciidoc_reader  *)
(* and filetime_from_git: PLUGINS holds these two names and no other, and  *)
(* PLUGIN_PATHS holds at least one search path, 'pelican-plugins'.         *)
C7_Plugins ==
    Loaded =>
        /\ ns["PLUGINS"].ty \in {"tuple", "list"}
        /\ Len(ns["PLUGINS"].items) = 2
        /\ {Texts(ns["PLUGINS"])[i] : i \in 1..2} = {"asciidoc_reader", "filetime_from_git"}
        /\ ns["PLUGIN_PATHS"].ty \in {"tuple", "list"}
        /\ Len(ns["PLUGIN_PATHS"].items) >= 1
        /\ \E i \in 1..Len(ns["PLUGIN_PATHS"].items) :
                Texts(ns["PLUGIN_PATHS"])[i] = "pelican-plugins"

\* the load has ended and PLUGINS has been iterated to its end
C7_Witness ==
    /\ Loaded
    /\ cur = "PLUGINS"
    /\ idx = 2
    /\ out = ns["PLUGINS"].items

(* C10: every multi-valued setting is a sequence of whole names, never a   *)
(* bare string: each is a tuple or list whose elements are non-empty       *)
(* strings, and iterating THEME_TEMPLATES_OVERRIDES, STATIC_PATHS and      *)
(* PLUGIN_PATHS yields exactly one element each, 'templates', 'theme' and  *)
(* 'pelican-plugins', not the characters of the name.                      *)
C10_Expected(name) ==
    CASE name = "THEME_TEMPLATES_OVERRIDES" -> <<"templates">>
      [] name = "STATIC_PATHS" -> <<"theme">>
      [] name = "PLUGIN_PATHS" -> <<"pelican-plugins">>

C10_WholeNames ==
    /\ \A name \in MultiValued \cap DOMAIN ns :
        /\ ns[name].ty \in {"tuple", "list"}
        /\ \A i \in 1..Len(ns[name].items) :
                IsStr(ns[name].items[i]) /\ Len(ns[name].items[i].chars) > 0
    /\ \A name \in {"THEME_TEMPLATES_OVERRIDES", "STATIC_PATHS", "PLUGIN_PATHS"} :
        cur = name =>
            /\ idx <= 1
            /\ Len(out) = idx
            /\ \A i \in 1..Len(out) :
                    IsStr(out[i]) /\ Join(out[i].chars) = C10_Expected(name)[i]
            /\ ENABLED IterNext <=> idx = 0

\* an iteration of THEME_TEMPLATES_OVERRIDES has yielded 'templates' and is exhausted
C10_Witness ==
    /\ cur = "THEME_TEMPLATES_OVERRIDES"
    /\ idx = 1
    /\ Join(out[1].chars) = "templates"
    /\ ENABLED IterStop

====
